---- MODULE Spec2Model ----
(***************************************************************************)
(* Model of src/index.js: the pending-task bot.                            *)
(*                                                                         *)
(* The process is a single-threaded event loop: code between two awaits    *)
(* runs atomically, so every action below is "one awaited call returns     *)
(* and the handler runs on to its next await".  The program counter of a   *)
(* handler names the call it is waiting for.                               *)
(*                                                                         *)
(* The redis client has one connection, so commands reach the store in     *)
(* the order in which they were issued: redisQueue is that pipeline.       *)
(* Calls to the chat platform are independent HTTP requests and return in  *)
(* any order.  Every awaited call may fail.                                *)
(***************************************************************************)
EXTENDS Integers, Sequences, FiniteSets, TLC

\* ---------------------------------------------------------------- bounds
MaxEvents == 2      \* number of inbound events delivered in one behaviour
MaxReminderEvents == 3  \* the same, where the reminder scenarios need three
MaxAllEvents == 1   \* the same, where every kind of handler takes part
MaxActive == 2      \* events whose handlers are in flight at the same time
MaxActiveAll == 1   \* the same, in the reminder and broadcast scenarios
MaxTimerEvents == 2 \* the same, where several reminders are armed
MaxFailures == 1    \* number of awaited calls that fail in one behaviour

\* ------------------------------------------------------- inputs (values)
NoTs == 0                       \* an absent (undefined) timestamp: falsy
OldTs == 100                    \* the root of a thread older than the process
Users == {"U1", "U2"}
Channel == "C1"
Domain == "acme"                \* what team.info answers
NoDomain == "null"              \* let workspaceDomain = null

LongText == "0123456789012345678901234567890123456789012345678901234567890"
LongText50 == "01234567890123456789012345678901234567890123456789"
NoParentText == "No parent message found."
TopicPrefix == "<@U1> set the channel topic:"

\* message texts, as sequences of tokens
\* channel topics, as sequences of tokens
Topics ==
  { << >>,
    <<"<@U2>", "<@u1>", "<@U1>", "<@U2>">>,
    <<"@list_pending">> }

\* what conversations.replies answers in messages: no message, or the parent
ReplyResults == { << >>, <<LongText>> }

\* ---------------------------------------------------- pure functions
Includes(text, tok) == \E i \in 1..Len(text) : text[i] = tok

\* parentText.substring(0, 50); LongText is the only text above 50 characters
Substring50(t) == IF t = LongText THEN LongText50 ELSE t

\* parentMessage.messages?.[0]?.text || "No parent message found."
ParentText(messages) ==
  IF Len(messages) > 0 /\ messages[1] # "" THEN messages[1] ELSE NoParentText

\* JSON.stringify of the task record: the fields in the order written
JSONstringify(taskData) ==
  <<taskData.status, taskData.channel, taskData.text, taskData.comment>>

\* a parse that loses the last member of the object
JSONparseLossy(s) ==
  [status |-> s[1], channel |-> s[2], text |-> s[3], comment |-> << >>]

JSONparse(s) ==
  [status |-> s[1], channel |-> s[2], text |-> s[3], comment |-> s[4]]

\* /<@([A-Z0-9]+)>/ on one token: the captured id, or "" when it does not match
MentionId(tok) ==
  CASE tok = "<@U1>" -> "U1"
    [] tok = "<@U2>" -> "U2"
    [] OTHER -> ""

\* a match without the g flag: the first mention only
extractFirstUserId(topic) ==
  LET ms == SelectSeq(topic, LAMBDA tok : MentionId(tok) # "")
  IN IF ms = << >> THEN << >> ELSE <<MentionId(ms[1])>>

RECURSIVE extractUserIdsFromTopic(_)
extractUserIdsFromTopic(topic) ==
  IF topic = << >> THEN << >>
  ELSE IF MentionId(Head(topic)) # ""
       THEN <<MentionId(Head(topic))>> \o extractUserIdsFromTopic(Tail(topic))
       ELSE extractUserIdsFromTopic(Tail(topic))

\* (\d+) and parseInt(match[1], 10)
IsDigits(tok) == tok \in {"0", "1", "2", "25"}
parseInt(tok) == CASE tok = "0" -> 0 [] tok = "1" -> 1 [] tok = "2" -> 2 [] tok = "25" -> 25

\* (minute|hour|day)s? with /i, then match[2].toLowerCase()
UnitOf(tok) ==
  CASE tok \in {"minute", "minutes", "Minutes"} -> "minute"
    [] tok \in {"hour", "hours", "Hours"} -> "hour"
    [] tok \in {"day", "days", "Days"} -> "day"
    [] OTHER -> ""

\* message.text.toLowerCase().startsWith("remind me in")
StartsWithRemind(text) ==
  Len(text) > 0 /\ text[1] \in {"remind me in", "Remind me in"}

\* message.text.match(/remind me in (\d+)\s*(minute|hour|day)s?/i):
\* the positions at which the pattern matches; the first is the match
MatchAt(text) ==
  { i \in 1..Len(text) :
      /\ text[i] \in {"remind me in", "Remind me in"}
      /\ i + 2 <= Len(text)
      /\ IsDigits(text[i + 1])
      /\ UnitOf(text[i + 2]) # "" }

HasMatch(text) == MatchAt(text) # {}
FirstMatch(text) == CHOOSE i \in MatchAt(text) : \A j \in MatchAt(text) : i <= j
Amount(text) == parseInt(text[FirstMatch(text) + 1])
Unit(text) == UnitOf(text[FirstMatch(text) + 2])

\* The largest delay a timer takes: a 32-bit signed integer of milliseconds.
TIMEOUT_MAX == 2147483647

\* A number is a double in the program and a 32-bit integer here: TooLong
\* stands for every product above TIMEOUT_MAX (truthy, like any of them).
TooLong == -1

Times(amount, factor) ==
  IF amount > TIMEOUT_MAX \div factor THEN TooLong ELSE amount * factor

delayInMs(amount, unit) ==
  CASE unit = "minute" -> Times(amount, 60 * 1000)
    [] unit = "hour" -> Times(amount, 60 * 60 * 1000)
    [] unit = "day" -> Times(amount, 24 * 60 * 60 * 1000)

\* setTimeout(callback, delay): the delay the timer is given.  A delay above
\* TIMEOUT_MAX or below 1 is replaced by 1.
setTimeout(delay) ==
  IF delay = TooLong \/ delay > TIMEOUT_MAX \/ delay < 1 THEN 1 ELSE delay

\* every command keyed by one thread, whatever the message
ThreadIdOfAny(m) == OldTs

\* message.thread_ts || message.ts
ThreadIdOf(m) == IF m.thread_ts # NoTs THEN m.thread_ts ELSE m.ts

\* ------------------------------------------------ the store (redis hash)
\* The hash "pendingTasks" is a list of fields: an existing field is
\* overwritten in place, a new one is appended, a deleted one is removed.
HasField(h, key) == \E i \in 1..Len(h) : h[i].key = key

hSetAppend(h, key, val) == Append(h, [key |-> key, val |-> val])

\* a put that only overwrites a field that is there
hSetIfPresent(h, key, val) ==
  IF HasField(h, key)
  THEN [i \in 1..Len(h) |-> IF h[i].key = key THEN [key |-> key, val |-> val] ELSE h[i]]
  ELSE h

hSet(h, key, val) ==
  IF HasField(h, key)
  THEN [i \in 1..Len(h) |-> IF h[i].key = key THEN [key |-> key, val |-> val] ELSE h[i]]
  ELSE Append(h, [key |-> key, val |-> val])

\* a delete by position that does not test for "not found" (index -1 removes
\* the last field)
hDelSplice(h, key) ==
  IF h # << >> /\ ~HasField(h, key)
  THEN SubSeq(h, 1, Len(h) - 1)
  ELSE SelectSeq(h, LAMBDA f : f.key # key)

hDel(h, key) == SelectSeq(h, LAMBDA f : f.key # key)

\* hGet: the field's value, or << >> for null
hGet(h, key) ==
  IF HasField(h, key)
  THEN (CHOOSE f \in {h[i] : i \in 1..Len(h)} : f.key = key).val
  ELSE << >>

hGetAll(h) == h

\* Object.entries(tasks).map(([threadId, taskData]) => ({threadId, ...JSON.parse(taskData)}))
getPendingTasks(fields) ==
  [i \in 1..Len(fields) |->
     [threadId |-> fields[i].key,
      status |-> JSONparse(fields[i].val).status,
      channel |-> JSONparse(fields[i].val).channel,
      text |-> JSONparse(fields[i].val).text,
      comment |-> JSONparse(fields[i].val).comment]]

\* ------------------------------------------------------------- state
VARIABLES
  workspaceDomain,  \* the cached domain (line 29)
  pendingTasks,     \* the redis hash "pendingTasks"
  redisQueue,       \* commands sent on the redis connection, not yet answered
  events,           \* the inbound message events delivered so far
  mh,               \* mh[e]: the app.message listener's run for event e
  th,               \* th[e]: the app.event('message') listener's run for event e
  timers,           \* the setTimeout callbacks armed by setReminder
  failures,         \* number of awaited calls that have failed
  alive             \* FALSE once a failure has escaped a handler

vars == <<workspaceDomain, pendingTasks, redisQueue, events, mh, th, timers,
          failures, alive>>

Eff(op, what, thread) == [op |-> op, what |-> what, thread |-> thread]
Cmd(kind, id, cmd, key, val) ==
  [kind |-> kind, id |-> id, cmd |-> cmd, key |-> key, val |-> val]

Finished(pc) == pc \in {"done", "error_logged", "uncaught"}
Active == { e \in 1..Len(events) : ~Finished(mh[e].pc) \/ ~Finished(th[e].pc) }
CanFail == failures < MaxFailures

\* try { ... } catch (error) { logger.error(...) } around a whole handler body:
\* where a failure raised inside the handler ends
HandlerCatchTimerEscapes(kind) == IF kind = "tm" THEN "uncaught" ELSE "error_logged"

\* a catch around each command of the message handler, after which the
\* handler goes on with @completed
HandlerCatchGoesOn(kind) == IF kind = "mh" THEN "hDel" ELSE "error_logged"

HandlerCatch(kind) == "error_logged"

\* ---------------------------------------- app.message: the branches
\* Each operator gives the await at which the handler stops next when it
\* runs on from the named branch.
ListStage(m) ==
  IF m.text # << >> /\ Includes(m.text, "@list_pending") THEN "hGetAll" ELSE "done"

CompletedStage(m) ==
  IF m.text # << >> /\ Includes(m.text, "@completed")
  THEN IF ThreadIdOf(m) = NoTs THEN "say_guide_completed" ELSE "hDel"
  ELSE ListStage(m)

ReminderStage(m) ==
  IF m.text # << >> /\ StartsWithRemind(m.text) /\ HasMatch(m.text)
  THEN IF ThreadIdOf(m) = NoTs THEN "say_guide_remind"
       ELSE IF delayInMs(Amount(m.text), Unit(m.text)) # 0 THEN "say_remind"
       ELSE CompletedStage(m)
  ELSE CompletedStage(m)

PendingStage(m) ==
  IF m.text # << >> /\ Includes(m.text, "@pending") THEN "replies" ELSE ReminderStage(m)

\* a dispatch that runs one command per message: an else-if chain
AfterSayExclusive(m, pc) == "done"

\* the stage after an awaited say() has returned
AfterSay(m, pc) ==
  CASE pc = "say_pending" -> ReminderStage(m)
    [] pc = "say_remind" -> CompletedStage(m)
    [] pc = "say_completed" -> ListStage(m)
    [] pc = "say_list" -> "done"
    [] pc = "say_guide_remind" -> "done"
    [] pc = "say_guide_completed" -> "done"

\* what a say() at this stage posts
SayWhat(pc) ==
  CASE pc = "say_pending" -> "pending"
    [] pc = "say_remind" -> "remind"
    [] pc = "say_completed" -> "completed"
    [] pc = "say_list" -> "list"
    [] pc = "say_guide_remind" -> "guide_remind"
    [] pc = "say_guide_completed" -> "guide_completed"

\* await addPendingTask / removePendingTask / getPendingTasks, then the reply:
\* where the message handler continues when the store command has returned
StoreDoneSwallow(cmd, ok) ==
  CASE cmd = "hSet" -> "say_pending"
    [] cmd = "hDel" -> "say_completed"
    [] cmd = "hGetAll" -> "say_list"

StoreDone(cmd, ok) ==
  IF ~ok THEN "catch"
  ELSE CASE cmd = "hSet" -> "say_pending"
         [] cmd = "hDel" -> "say_completed"
         [] cmd = "hGetAll" -> "say_list"

\* the redis command the message handler sends when it enters a stage
MhIssue(q, e, m, stage) ==
  IF stage \in {"hDel", "hGetAll"}
  THEN Append(q, Cmd("mh", e, stage, ThreadIdOf(m), << >>))
  ELSE q

NewMh(pc) ==
  [pc |-> pc, parentText |-> "", tasks |-> << >>, linkDomain |-> "", effects |-> << >>,
   failedAt |-> ""]
NewTh(pc, userIds) ==
  [pc |-> pc, userIds |-> userIds, domain |-> "", tasks |-> << >>,
   instructions |-> << >>, i |-> 0, calls |-> << >>, sent |-> << >>, failedAt |-> ""]
\* hadTask, completed and reput record the history of the timer's thread:
\* a task was there at arming; a delete ran before the timer fired; a put
\* ran after that delete and before the callback read the store.
\* a reminder posted to one fixed user instead of the one who asked
NewTimerFixedUser(e, userId, threadId, delay, hadTask) ==
  [by |-> e, userId |-> "U1", threadId |-> threadId, delay |-> delay, pc |-> "armed",
   task |-> << >>, sent |-> << >>, hadTask |-> hadTask, completed |-> FALSE,
   reput |-> FALSE, failedAt |-> ""]

NewTimer(e, userId, threadId, delay, hadTask) ==
  [by |-> e, userId |-> userId, threadId |-> threadId, delay |-> delay, pc |-> "armed",
   task |-> << >>, sent |-> << >>, hadTask |-> hadTask, completed |-> FALSE,
   reput |-> FALSE, failedAt |-> ""]

\* The hash outlives the process: it starts empty or with the task of the
\* old thread, written by an earlier run.
OldTask ==
  JSONstringify([status |-> "pending", channel |-> Channel, text |-> "Fix bug",
                 comment |-> <<"@pending">>])

InitialStores == { << >>, <<[key |-> OldTs, val |-> OldTask]>> }

InitWith(stores) ==
  /\ workspaceDomain = NoDomain
  /\ pendingTasks \in stores
  /\ redisQueue = << >>
  /\ events = << >>
  /\ mh = << >>
  /\ th = << >>
  /\ timers = << >>
  /\ failures = 0
  /\ alive = TRUE

Init == InitWith(InitialStores)

\* ------------------------------------------------------ inbound events
\* A message event reaches both listeners.  For a plain message the
\* app.event listener returns at once (subtype test, line 136).
ReceiveMessage(texts, threads, users, max, active) ==
  /\ alive
  /\ Len(events) < max
  /\ Cardinality(Active) < active
  /\ \E text \in texts, thread_ts \in threads, user \in users :
       LET e == Len(events) + 1
           m == [subtype |-> "none", text |-> text, ts |-> e, thread_ts |-> thread_ts,
                 user |-> user, channel |-> Channel, topic |-> << >>]
           stage == IF workspaceDomain = NoDomain THEN "team_info" ELSE PendingStage(m)
       IN /\ events' = Append(events, m)
          /\ th' = Append(th, NewTh("done", << >>))
          /\ mh' = Append(mh, NewMh(stage))
          /\ redisQueue' = MhIssue(redisQueue, e, m, stage)
  /\ UNCHANGED <<workspaceDomain, pendingTasks, timers, failures, alive>>

\* A channel_topic message: text is "<@user> set the channel topic: <topic>".
\* The topic listener extracts the mentions and fetches the domain; the
\* app.message listener runs on the same event.
ReceiveTopicChange(topics, max, active) ==
  /\ alive
  /\ Len(events) < max
  /\ Cardinality(Active) < active
  /\ \E topic \in topics :
       LET e == Len(events) + 1
           m == [subtype |-> "channel_topic", text |-> <<TopicPrefix>> \o topic, ts |-> e,
                 thread_ts |-> NoTs, user |-> "U1", channel |-> Channel, topic |-> topic]
           userIds == extractUserIdsFromTopic(topic)
           tstage == IF workspaceDomain = NoDomain THEN "team_info" ELSE "hGetAll"
           q1 == IF tstage = "hGetAll"
                 THEN Append(redisQueue, Cmd("th", e, "hGetAll", NoTs, << >>))
                 ELSE redisQueue
           mstage == IF workspaceDomain = NoDomain THEN "team_info" ELSE PendingStage(m)
       IN /\ events' = Append(events, m)
          /\ th' = Append(th, [NewTh(tstage, userIds) EXCEPT !.domain =
                                 IF tstage = "hGetAll" THEN workspaceDomain ELSE ""])
          /\ mh' = Append(mh, NewMh(mstage))
          /\ redisQueue' = MhIssue(q1, e, m, mstage)
  /\ UNCHANGED <<workspaceDomain, pendingTasks, timers, failures, alive>>

\* ------------------------------------------------ getWorkspaceDomain
\* a fetch whose answer is returned and not kept
CacheDomainNever(response) == NoDomain

\* workspaceDomain = response.team.domain: the value the cache takes
CacheDomain(response) == response

\* client.team.info() returns to one of the callers waiting for it.
AwaitingTeamInfo ==
  {[kind |-> "mh", id |-> e] : e \in {x \in 1..Len(events) : mh[x].pc = "team_info"}}
  \cup {[kind |-> "th", id |-> e] : e \in {x \in 1..Len(events) : th[x].pc = "team_info"}}
  \cup {[kind |-> "tm", id |-> t] : t \in {x \in 1..Len(timers) : timers[x].pc = "team_info"}}

Caught(kind) == HandlerCatch(kind)

TeamInfoReturn ==
  /\ alive
  /\ \E w \in AwaitingTeamInfo, ok \in BOOLEAN :
       /\ ~ok => CanFail
       /\ failures' = IF ok THEN failures ELSE failures + 1
       /\ alive' = (ok \/ Caught(w.kind) # "uncaught")
       /\ workspaceDomain' = IF ok THEN CacheDomain(Domain) ELSE workspaceDomain
       /\ IF w.kind = "mh"
          THEN LET m == events[w.id]
                   stage == IF ok THEN PendingStage(m) ELSE Caught("mh")
               IN /\ mh' = [mh EXCEPT ![w.id].pc = stage,
                                      ![w.id].failedAt = IF ok THEN @ ELSE "team_info"]
                  /\ redisQueue' = MhIssue(redisQueue, w.id, m, stage)
                  /\ UNCHANGED <<th, timers>>
          ELSE IF w.kind = "th"
          THEN /\ th' = [th EXCEPT ![w.id].pc = IF ok THEN "hGetAll" ELSE Caught("th"),
                                   ![w.id].domain = IF ok THEN Domain ELSE @,
                                   ![w.id].failedAt = IF ok THEN @ ELSE "team_info"]
               /\ redisQueue' = IF ok
                                THEN Append(redisQueue, Cmd("th", w.id, "hGetAll", NoTs, << >>))
                                ELSE redisQueue
               /\ UNCHANGED <<mh, timers>>
          ELSE /\ timers' = [timers EXCEPT ![w.id].pc = IF ok THEN "hGet" ELSE Caught("tm"),
                                           ![w.id].failedAt = IF ok THEN @ ELSE "team_info"]
               /\ redisQueue' = IF ok
                                THEN Append(redisQueue,
                                            Cmd("tm", w.id, "hGet", timers[w.id].threadId, << >>))
                                ELSE redisQueue
               /\ UNCHANGED <<mh, th>>
  /\ UNCHANGED <<pendingTasks, events>>

\* ------------------------------------------------ app.message: @pending
\* client.conversations.replies returns: build the task and send the hSet.
RepliesReturn ==
  /\ alive
  /\ \E e \in 1..Len(events), ok \in BOOLEAN, messages \in ReplyResults :
       /\ mh[e].pc = "replies"
       /\ ~ok => (CanFail /\ messages = << >>)
       /\ failures' = IF ok THEN failures ELSE failures + 1
       /\ alive' = (ok \/ Caught("mh") # "uncaught")
       /\ LET m == events[e]
              truncatedText == Substring50(ParentText(messages))
              taskData == [status |-> "pending", channel |-> m.channel,
                           text |-> truncatedText, comment |-> m.text]
          IN IF ok
             THEN /\ mh' = [mh EXCEPT ![e].pc = "hSet", ![e].parentText = truncatedText]
                  /\ redisQueue' = Append(redisQueue,
                                          Cmd("mh", e, "hSet", ThreadIdOf(m),
                                              JSONstringify(taskData)))
             ELSE /\ mh' = [mh EXCEPT ![e].pc = Caught("mh"), ![e].failedAt = "replies"]
                  /\ UNCHANGED redisQueue
  /\ UNCHANGED <<workspaceDomain, pendingTasks, events, th, timers>>

\* ------------------------------------------------ the redis connection
\* The oldest command is answered; its caller runs on to its next await.
MhAfterStore(e, cmd, ok, q, value) ==
  LET m == events[e]
      s == StoreDone(cmd, ok)
      stage == IF s = "catch" THEN Caught("mh") ELSE s
  IN /\ mh' = [mh EXCEPT ![e].pc = stage,
                         ![e].failedAt = IF ok THEN @ ELSE cmd,
                         ![e].effects = IF ok /\ cmd # "hGetAll"
                                        THEN Append(@, Eff(cmd, "ok", ThreadIdOf(m)))
                                        ELSE @,
                         ![e].tasks = IF ok /\ cmd = "hGetAll" THEN value ELSE @,
                         ![e].linkDomain = IF ok /\ cmd = "hGetAll" /\ Len(value) > 0
                                           THEN workspaceDomain ELSE @]
     /\ redisQueue' = q

RedisHSet ==
  /\ alive
  /\ redisQueue # << >>
  /\ Head(redisQueue).cmd = "hSet"
  /\ LET c == Head(redisQueue)
     IN /\ pendingTasks' = hSet(pendingTasks, c.key, c.val)
        /\ MhAfterStore(c.id, "hSet", TRUE, Tail(redisQueue), c.val)
        /\ timers' = [t \in 1..Len(timers) |->
                        IF timers[t].threadId = c.key /\ timers[t].completed
                           /\ timers[t].pc \in {"armed", "team_info", "hGet"}
                        THEN [timers[t] EXCEPT !.reput = TRUE]
                        ELSE timers[t]]
  /\ UNCHANGED <<workspaceDomain, events, th, failures, alive>>

RedisHDel ==
  /\ alive
  /\ redisQueue # << >>
  /\ Head(redisQueue).cmd = "hDel"
  /\ LET c == Head(redisQueue)
     IN /\ pendingTasks' = hDel(pendingTasks, c.key)
        /\ MhAfterStore(c.id, "hDel", TRUE, Tail(redisQueue), << >>)
        /\ timers' = [t \in 1..Len(timers) |->
                        IF timers[t].threadId = c.key /\ timers[t].pc = "armed"
                        THEN [timers[t] EXCEPT !.completed = TRUE, !.reput = FALSE]
                        ELSE timers[t]]
  /\ UNCHANGED <<workspaceDomain, events, th, failures, alive>>

\* @list_pending: the listing returns; compose the reply
RedisHGetAllList ==
  /\ alive
  /\ redisQueue # << >>
  /\ Head(redisQueue).cmd = "hGetAll"
  /\ Head(redisQueue).kind = "mh"
  /\ LET c == Head(redisQueue)
     IN MhAfterStore(c.id, "hGetAll", TRUE, Tail(redisQueue),
                     getPendingTasks(hGetAll(pendingTasks)))
  /\ UNCHANGED <<workspaceDomain, pendingTasks, events, th, timers, failures, alive>>

\* ------------------------------------------------ topic-change broadcast
\* if (pendingTasks.length === 0 || userIds.length === 0) return;
SkipBroadcast(tasks, userIds) == Len(tasks) = 0 \/ Len(userIds) = 0

\* pendingTasks.map((data, index) => `${index + 1}. ${data.text}... ${threadLink}`)
Instructions(tasks, domain) ==
  [k \in 1..Len(tasks) |->
     [n |-> k, text |-> tasks[k].text, domain |-> domain,
      channel |-> tasks[k].channel, threadId |-> tasks[k].threadId]]

\* sendDM's try/catch: what the caller of sendDM sees when a call inside failed
sendDMThrows(ok) == IF ok THEN "continue" ELSE "throw"

sendDMResult(ok) == "continue"

\* a loop that lists the hash again before every send
NextRecipientRelist(h) ==
  IF h.i < Len(h.userIds)
  THEN [h EXCEPT !.i = h.i + 1, !.pc = "dm_open",
                 !.calls = Append(h.calls, h.userIds[h.i + 1]),
                 !.tasks = getPendingTasks(hGetAll(pendingTasks)),
                 !.instructions = Instructions(getPendingTasks(hGetAll(pendingTasks)),
                                               h.domain)]
  ELSE [h EXCEPT !.pc = "done"]

\* for (const userId of userIds) await sendDM(...): the next iteration
NextRecipient(h) ==
  IF h.i < Len(h.userIds)
  THEN [h EXCEPT !.i = h.i + 1, !.pc = "dm_open",
                 !.calls = Append(h.calls, h.userIds[h.i + 1])]
  ELSE [h EXCEPT !.pc = "done"]

RedisHGetAllTopic ==
  /\ alive
  /\ redisQueue # << >>
  /\ Head(redisQueue).cmd = "hGetAll"
  /\ Head(redisQueue).kind = "th"
  /\ LET e == Head(redisQueue).id
         tasks == getPendingTasks(hGetAll(pendingTasks))
         h == [th[e] EXCEPT !.tasks = tasks]
     IN th' = [th EXCEPT ![e] =
                 IF SkipBroadcast(tasks, h.userIds)
                 THEN [h EXCEPT !.pc = "done"]
                 ELSE NextRecipient([h EXCEPT !.instructions =
                                         Instructions(tasks, h.domain)])]
  /\ redisQueue' = Tail(redisQueue)
  /\ UNCHANGED <<workspaceDomain, pendingTasks, events, mh, timers, failures, alive>>

\* conversations.open returns inside sendDM
DmOpenReturn ==
  /\ alive
  /\ \E e \in 1..Len(events), ok \in BOOLEAN :
       /\ th[e].pc = "dm_open"
       /\ ~ok => CanFail
       /\ failures' = IF ok THEN failures ELSE failures + 1
       /\ alive' = (sendDMResult(ok) = "continue" \/ Caught("th") # "uncaught")
       /\ th' = [th EXCEPT ![e] =
                   IF ok THEN [@ EXCEPT !.pc = "dm_post"]
                   ELSE IF sendDMResult(ok) = "continue" THEN NextRecipient(@)
                   ELSE [@ EXCEPT !.pc = Caught("th"), !.failedAt = th[e].pc]]
  /\ UNCHANGED <<workspaceDomain, pendingTasks, redisQueue, events, mh, timers>>

\* chat.postMessage returns inside sendDM
DmPostReturn ==
  /\ alive
  /\ \E e \in 1..Len(events), ok \in BOOLEAN :
       /\ th[e].pc = "dm_post"
       /\ ~ok => CanFail
       /\ failures' = IF ok THEN failures ELSE failures + 1
       /\ alive' = (sendDMResult(ok) = "continue" \/ Caught("th") # "uncaught")
       /\ th' = [th EXCEPT ![e] =
                   IF ok
                   THEN NextRecipient([@ EXCEPT !.sent =
                          Append(@, [userId |-> th[e].userIds[th[e].i],
                                     text |-> th[e].instructions])])
                   ELSE IF sendDMResult(ok) = "continue" THEN NextRecipient(@)
                   ELSE [@ EXCEPT !.pc = Caught("th"), !.failedAt = th[e].pc]]
  /\ UNCHANGED <<workspaceDomain, pendingTasks, redisQueue, events, mh, timers>>

\* ------------------------------------------------ app.message: replies
\* setReminder called without waiting for the reply to succeed
setReminderUnawaited(ok, pc) == pc = "say_remind"

\* await say(...); await setReminder(...): setReminder is reached when the
\* awaited reply of the reminder branch has succeeded
setReminderCalled(ok, pc) == ok /\ pc = "say_remind"

\* An awaited say() returns.  After the reminder confirmation the handler
\* calls setReminder, which arms the timer and returns at once.
SayReturn ==
  /\ alive
  /\ \E e \in 1..Len(events), ok \in BOOLEAN :
       /\ mh[e].pc \in {"say_pending", "say_remind", "say_completed", "say_list",
                        "say_guide_remind", "say_guide_completed"}
       /\ ~ok => CanFail
       /\ failures' = IF ok THEN failures ELSE failures + 1
       /\ alive' = (ok \/ Caught("mh") # "uncaught")
       /\ LET m == events[e]
              pc == mh[e].pc
              stage == IF ok THEN AfterSay(m, pc) ELSE Caught("mh")
              where == CASE pc \in {"say_pending", "say_completed", "say_list"} -> ThreadIdOf(m)
                         [] pc = "say_remind" -> m.thread_ts
                         [] OTHER -> NoTs
          IN /\ mh' = [mh EXCEPT ![e].pc = stage,
                                 ![e].failedAt = IF ok THEN @ ELSE pc,
                                 ![e].effects = IF ok THEN Append(@, Eff("say", SayWhat(pc), where))
                                                ELSE @]
             /\ redisQueue' = MhIssue(redisQueue, e, m, stage)
             /\ timers' = IF setReminderCalled(ok, pc)
                          THEN Append(timers,
                                      NewTimer(e, m.user, ThreadIdOf(m),
                                               setTimeout(delayInMs(Amount(m.text),
                                                                    Unit(m.text))),
                                               HasField(pendingTasks, ThreadIdOf(m))))
                          ELSE timers
  /\ UNCHANGED <<workspaceDomain, pendingTasks, events, th>>

\* ------------------------------------------------ the reminder timer
\* if (task): the callback notifies only when hGet gave a value
TaskFoundAlways(task) == TRUE

TaskFound(task) == task # << >>

\* the delay has elapsed: the callback starts
TimerFire ==
  /\ alive
  /\ \E t \in 1..Len(timers) :
       /\ timers[t].pc = "armed"
       /\ IF workspaceDomain = NoDomain
          THEN /\ timers' = [timers EXCEPT ![t].pc = "team_info"]
               /\ UNCHANGED redisQueue
          ELSE /\ timers' = [timers EXCEPT ![t].pc = "hGet"]
               /\ redisQueue' = Append(redisQueue,
                                       Cmd("tm", t, "hGet", timers[t].threadId, << >>))
  /\ UNCHANGED <<workspaceDomain, pendingTasks, events, mh, th, failures, alive>>

\* hGet returns to the callback: post the reminder or skip
RedisHGet ==
  /\ alive
  /\ redisQueue # << >>
  /\ Head(redisQueue).cmd = "hGet"
  /\ LET t == Head(redisQueue).id
         task == hGet(pendingTasks, timers[t].threadId)
     IN timers' = [timers EXCEPT ![t].task = task,
                                 ![t].pc = IF TaskFound(task) THEN "post" ELSE "done"]
  /\ redisQueue' = Tail(redisQueue)
  /\ UNCHANGED <<workspaceDomain, pendingTasks, events, mh, th, failures, alive>>

\* chat.postMessage({channel: userId, ...}) returns to the callback
ReminderPostReturn ==
  /\ alive
  /\ \E t \in 1..Len(timers), ok \in BOOLEAN :
       /\ timers[t].pc = "post"
       /\ ~ok => CanFail
       /\ failures' = IF ok THEN failures ELSE failures + 1
       /\ alive' = (ok \/ Caught("tm") # "uncaught")
       /\ timers' = [timers EXCEPT
            ![t].pc = IF ok THEN "done" ELSE Caught("tm"),
            ![t].failedAt = IF ok THEN @ ELSE "post",
            ![t].sent = IF ok
                        THEN <<[userId |-> timers[t].userId,
                                text |-> IF timers[t].task = << >> THEN ""
                                         ELSE JSONparse(timers[t].task).text,
                                domain |-> workspaceDomain,
                                threadId |-> timers[t].threadId]>>
                        ELSE @]
  /\ UNCHANGED <<workspaceDomain, pendingTasks, redisQueue, events, mh, th>>

\* ------------------------------------------------ a store command fails
RedisError ==
  /\ alive
  /\ CanFail
  /\ redisQueue # << >>
  /\ LET c == Head(redisQueue)
     IN /\ alive' = (Caught(c.kind) # "uncaught" \/
                       (c.kind = "mh" /\ StoreDone(c.cmd, FALSE) # "catch"))
        /\ IF c.kind = "mh"
           THEN /\ MhAfterStore(c.id, c.cmd, FALSE, Tail(redisQueue), << >>)
                /\ UNCHANGED <<th, timers>>
           ELSE IF c.kind = "th"
           THEN /\ th' = [th EXCEPT ![c.id].pc = Caught("th"), ![c.id].failedAt = c.cmd]
                /\ redisQueue' = Tail(redisQueue)
                /\ UNCHANGED <<mh, timers>>
           ELSE /\ timers' = [timers EXCEPT ![c.id].pc = Caught("tm"),
                                             ![c.id].failedAt = c.cmd]
                /\ redisQueue' = Tail(redisQueue)
                /\ UNCHANGED <<mh, th>>
  /\ failures' = failures + 1
  /\ UNCHANGED <<workspaceDomain, pendingTasks, events>>

\* ------------------------------------------------ specifications
\* The actions are the same in every specification; the specifications
\* differ in the events that the platform delivers.
LifecycleTexts == { <<"@pending">>, <<"@completed">>, <<"@pending", "@completed">> }

ReminderTexts == { <<"remind me in", "1", "minute">>, <<"@pending">>, <<"@completed">> }

ScheduleTexts ==
  { <<"remind me in", "0", "minutes">>,
    <<"remind me in", "2", "hours">>,
    <<"Remind me in", "1", "day">>,
    <<"remind me in", "25", "days">>,
    <<"remind me in", "soon">>,
    <<"@completed">> }

BroadcastTexts == { <<"@completed">> }

AllCommands == <<"remind me in", "2", "hours", "@pending", "@completed", "@list_pending">>

\* every command in one message, and two commands named in the other order
CommandTexts == { AllCommands, <<"@completed", "@pending">> }

\* task lifecycle: @pending and @completed, in the old thread or outside it
NextLifecycle ==
  \/ ReceiveMessage(LifecycleTexts, {NoTs, OldTs}, {"U1"}, MaxEvents, MaxActive)
  \/ TeamInfoReturn
  \/ RepliesReturn
  \/ RedisHSet
  \/ RedisHDel
  \/ RedisError
  \/ SayReturn

SpecLifecycle == Init /\ [][NextLifecycle]_vars

\* a reminder for the old thread, which has a task at the start and is
\* marked pending and completed
NextReminder ==
  \/ ReceiveMessage(ReminderTexts, {OldTs}, {"U1"}, MaxReminderEvents, MaxActiveAll)
  \/ TeamInfoReturn
  \/ RepliesReturn
  \/ RedisHSet
  \/ RedisHDel
  \/ RedisHGet
  \/ RedisError
  \/ SayReturn
  \/ TimerFire
  \/ ReminderPostReturn

SpecReminder == InitWith({<<[key |-> OldTs, val |-> OldTask]>>}) /\ [][NextReminder]_vars

\* reminder requests of every shape, in a thread or outside one
NextSchedule ==
  \/ ReceiveMessage(ScheduleTexts, {NoTs, OldTs}, {"U1"}, MaxEvents, MaxActive)
  \/ TeamInfoReturn
  \/ RedisHDel
  \/ RedisHGet
  \/ RedisError
  \/ SayReturn
  \/ TimerFire
  \/ ReminderPostReturn

SpecSchedule == Init /\ [][NextSchedule]_vars

\* topic changes, and completions of the old thread
NextBroadcast ==
  \/ ReceiveTopicChange(Topics, MaxEvents, MaxActiveAll)
  \/ ReceiveMessage(BroadcastTexts, {OldTs}, {"U1"}, MaxEvents, MaxActiveAll)
  \/ TeamInfoReturn
  \/ RedisHDel
  \/ RedisHGetAllList
  \/ RedisHGetAllTopic
  \/ RedisError
  \/ SayReturn
  \/ DmOpenReturn
  \/ DmPostReturn

SpecBroadcast == Init /\ [][NextBroadcast]_vars

\* several reminders for the old thread, asked by different users, and a
\* completion.  The event loop runs every callback that is due and every
\* awaited call returns: the steps of the handlers are weakly fair.
IndependentTexts == { <<"remind me in", "1", "minute">>, <<"@completed">> }

HandlerSteps ==
  \/ TeamInfoReturn
  \/ RedisHDel
  \/ RedisHGet
  \/ RedisError
  \/ SayReturn
  \/ TimerFire
  \/ ReminderPostReturn

NextIndependent ==
  \/ ReceiveMessage(IndependentTexts, {OldTs}, Users, MaxTimerEvents, MaxActiveAll)
  \/ TeamInfoReturn
  \/ RedisHDel
  \/ RedisHGet
  \/ RedisError
  \/ SayReturn
  \/ TimerFire
  \/ ReminderPostReturn

SpecIndependent ==
  /\ InitWith({<<[key |-> OldTs, val |-> OldTask]>>})
  /\ [][NextIndependent]_vars
  /\ WF_vars(HandlerSteps)

\* every message that carries a thread link: a list reply and a reminder
\* asked in one message, and a topic digest, with the old task in the hash
LinkTexts == { <<"remind me in", "1", "minute", "@list_pending">> }

NextLinks ==
  \/ ReceiveMessage(LinkTexts, {OldTs}, {"U1"}, MaxEvents, MaxActiveAll)
  \/ ReceiveTopicChange({<<"<@U1>">>}, MaxEvents, MaxActiveAll)
  \/ TeamInfoReturn
  \/ RedisHGetAllList
  \/ RedisHGetAllTopic
  \/ RedisHGet
  \/ RedisError
  \/ SayReturn
  \/ DmOpenReturn
  \/ DmPostReturn
  \/ TimerFire
  \/ ReminderPostReturn

SpecLinks == InitWith({<<[key |-> OldTs, val |-> OldTask]>>}) /\ [][NextLinks]_vars

\* a broadcast to two users while the old thread is completed and marked
\* pending again
SnapshotTexts == { <<"@completed">>, <<"@pending">> }

NextSnapshot ==
  \/ ReceiveTopicChange({<<"<@U2>", "<@U1>">>}, MaxEvents, MaxActive)
  \/ ReceiveMessage(SnapshotTexts, {OldTs}, {"U1"}, MaxEvents, MaxActive)
  \/ TeamInfoReturn
  \/ RepliesReturn
  \/ RedisHSet
  \/ RedisHDel
  \/ RedisHGetAllTopic
  \/ RedisError
  \/ SayReturn
  \/ DmOpenReturn
  \/ DmPostReturn

SpecSnapshot == InitWith({<<[key |-> OldTs, val |-> OldTask]>>}) /\ [][NextSnapshot]_vars

\* every command, in the old thread or outside any thread, and a topic
\* whose text names a command
NextFrame ==
  \/ ReceiveMessage({AllCommands}, {NoTs, OldTs}, {"U1"}, MaxAllEvents, MaxActive)
  \/ ReceiveTopicChange({<<"<@U1>", "@pending">>}, MaxAllEvents, MaxActive)
  \/ TeamInfoReturn
  \/ RepliesReturn
  \/ RedisHSet
  \/ RedisHDel
  \/ RedisHGetAllList
  \/ RedisHGetAllTopic
  \/ RedisHGet
  \/ RedisError
  \/ SayReturn
  \/ DmOpenReturn
  \/ DmPostReturn
  \/ TimerFire
  \/ ReminderPostReturn

SpecFrame == Init /\ [][NextFrame]_vars

\* every handler: a message that carries every command, and a topic change
Next ==
  \/ ReceiveMessage(CommandTexts, {OldTs}, Users, MaxAllEvents, MaxActive)
  \/ ReceiveTopicChange({<<"<@U1>">>}, MaxAllEvents, MaxActive)
  \/ TeamInfoReturn
  \/ RepliesReturn
  \/ RedisHSet
  \/ RedisHDel
  \/ RedisHGetAllList
  \/ RedisHGetAllTopic
  \/ RedisHGet
  \/ RedisError
  \/ SayReturn
  \/ DmOpenReturn
  \/ DmPostReturn
  \/ TimerFire
  \/ ReminderPostReturn

Spec == Init /\ [][Next]_vars

\* ================================================================ claims
EventIds == 1..Len(events)
TimerIds == 1..Len(timers)
HasEffect(e, eff) == \E k \in 1..Len(mh[e].effects) : mh[e].effects[k] = eff
SaidTo(e, what) ==
  \E k \in 1..Len(mh[e].effects) :
    mh[e].effects[k].op = "say" /\ mh[e].effects[k].what = what

\* ---------------------------------------------------------------- C1
\* C1 as stated: a reminder whose thread was completed (the delete ran)
\* while the timer was armed never sends its notification.
C1_CompletedNeverNotifies ==
  \A t \in TimerIds : timers[t].completed => timers[t].sent = << >>

\* C1 (amended): a reminder whose thread was completed while the timer was
\* armed, and not marked pending again before the callback read the store,
\* finds no task: it posts nothing, whatever the interleaving.
C1_ReminderValidity ==
  \A t \in TimerIds :
    (timers[t].completed /\ ~timers[t].reput) =>
      (timers[t].sent = << >> /\ timers[t].pc \in {"armed", "hGet", "done", "error_logged"})

C1_Witness ==
  \E t \in TimerIds :
    /\ timers[t].hadTask
    /\ timers[t].completed
    /\ ~timers[t].reput
    /\ timers[t].pc = "done"
    /\ timers[t].sent = << >>

\* ---------------------------------------------------------------- C2
UniqueKeys(h) == \A i, j \in 1..Len(h) : h[i].key = h[j].key => i = j

\* the record that the @pending handler of event e writes
TaskDataOf(e) ==
  [status |-> "pending", channel |-> events[e].channel, text |-> mh[e].parentText,
   comment |-> events[e].text]

PutReplaces ==
  \A e \in EventIds :
    (mh[e].pc = "hSet" /\ mh'[e].pc = "say_pending") =>
      LET k == ThreadIdOf(events[e])
      IN /\ hGet(pendingTasks', k) = JSONstringify(TaskDataOf(e))
         /\ Len(pendingTasks') =
              IF HasField(pendingTasks, k) THEN Len(pendingTasks) ELSE Len(pendingTasks) + 1
         /\ \A i \in 1..Len(pendingTasks) :
              pendingTasks[i].key # k => pendingTasks'[i] = pendingTasks[i]

\* C2: the hash never holds two fields for one threadId, and a put for a
\* thread that has a task leaves exactly the new record under that key.
C2_OneRecordPerThread == [](UniqueKeys(pendingTasks)) /\ [][PutReplaces]_vars

C2_Witness ==
  \E e1, e2 \in EventIds :
    /\ e1 < e2
    /\ HasEffect(e1, Eff("hSet", "ok", OldTs))
    /\ HasEffect(e2, Eff("hSet", "ok", OldTs))
    /\ mh[e1].parentText # mh[e2].parentText
    /\ hGet(pendingTasks, OldTs) = JSONstringify(TaskDataOf(e2))
    /\ Len(pendingTasks) = 1

\* ---------------------------------------------------------------- C3
CompleteAbsent ==
  \A e \in EventIds :
    (/\ mh[e].pc = "hDel"
     /\ mh'[e].pc # "hDel"
     /\ failures' = failures
     /\ ~HasField(pendingTasks, ThreadIdOf(events[e])))
    => (pendingTasks' = pendingTasks /\ mh'[e].pc = "say_completed")

ConfirmedAfterDelete ==
  \A e \in EventIds :
    (mh[e].pc = "done" /\ HasEffect(e, Eff("hDel", "ok", ThreadIdOf(events[e]))))
      => HasEffect(e, Eff("say", "completed", ThreadIdOf(events[e])))

DeleteTwiceIsOnce ==
  \A k \in {OldTs} \cup EventIds :
    hDel(hDel(pendingTasks, k), k) = hDel(pendingTasks, k)

\* C3: a delete for a thread without a task changes no record and the
\* handler goes on to the "marked as completed" reply; a second delete
\* gives the same hash as the first.
C3_IdempotentCompletion ==
  [](ConfirmedAfterDelete /\ DeleteTwiceIsOnce) /\ [][CompleteAbsent]_vars

C3_Witness ==
  \E e \in EventIds :
    /\ events[e].text = <<"@completed">>
    /\ events[e].thread_ts = NoTs
    /\ mh[e].pc = "done"
    /\ mh[e].effects = <<Eff("hDel", "ok", e), Eff("say", "completed", e)>>
    /\ pendingTasks # << >>

\* ---------------------------------------------------------------- C4
\* C4: a finished handler of "remind me in 0 minutes" has confirmed and
\* armed a reminder with delay 0.
C4_ZeroAmountArms ==
  \A e \in EventIds :
    (events[e].text = <<"remind me in", "0", "minutes">> /\ mh[e].pc = "done") =>
      /\ SaidTo(e, "remind")
      /\ \E t \in TimerIds : timers[t].by = e /\ timers[t].delay = 0

\* ---------------------------------------------------------------- C5
\* C5: for a message outside any thread, @completed sends no delete and a
\* reminder request arms no timer; the handler answers with guidance.
C5_NoAnchorNoAction ==
  \A e \in EventIds :
    (events[e].subtype = "none" /\ events[e].thread_ts = NoTs) =>
      /\ mh[e].pc # "hDel"
      /\ ~HasEffect(e, Eff("hDel", "ok", e))
      /\ \A t \in TimerIds : timers[t].by # e
      /\ ~SaidTo(e, "completed")
      /\ ~SaidTo(e, "remind")

\* ---------------------------------------------------------------- C6
\* C6: once the broadcast loop has started it runs to the last recipient:
\* sendDM has been called for the first i users, a failed open or post
\* never ends the handler, and at the end every user has had a call.
C6_BatchIsolation ==
  \A e \in EventIds :
    th[e].calls # << >> =>
      /\ th[e].pc \in {"dm_open", "dm_post", "done"}
      /\ th[e].calls = SubSeq(th[e].userIds, 1, th[e].i)
      /\ th[e].pc = "done" => th[e].calls = th[e].userIds

C6_Witness ==
  \E e \in EventIds :
    /\ th[e].pc = "done"
    /\ th[e].userIds = <<"U2", "U1", "U2">>
    /\ th[e].calls = th[e].userIds
    /\ failures = 1
    /\ Len(th[e].sent) = 2
    /\ th[e].sent[1].userId = "U1"

\* ---------------------------------------------------------------- C7
\* C7: for a topic change that mentions nobody, or that found no pending
\* task, neither listener of the event sends a message or changes the store.
C7_NothingHappens ==
  \A e \in EventIds :
    (/\ events[e].subtype = "channel_topic"
     /\ \/ th[e].userIds = << >>
        \/ (th[e].pc = "done" /\ th[e].tasks = << >>))
    => /\ th[e].calls = << >>
       /\ th[e].sent = << >>
       /\ mh[e].effects = << >>

\* ---------------------------------------------------------------- C8
\* the mention tokens of a topic, left to right
MentionOccurrences(topic) ==
  LET toks == SelectSeq(topic, LAMBDA tok : tok \in {"<@U1>", "<@U2>"})
  IN [k \in 1..Len(toks) |-> IF toks[k] = "<@U1>" THEN "U1" ELSE "U2"]

OneCallPerMention ==
  \A e \in EventIds :
    events[e].subtype = "channel_topic" =>
      /\ th[e].calls = SubSeq(MentionOccurrences(events[e].topic), 1, Len(th[e].calls))
      /\ (th[e].pc = "done" /\ th[e].tasks # << >>) =>
            th[e].calls = MentionOccurrences(events[e].topic)
      /\ Len(th[e].sent) <= Len(th[e].calls)
      /\ \A k \in 1..Len(th[e].sent) :
            /\ th[e].sent[k].text = th[e].instructions
            /\ Len(th[e].sent[k].text) = Len(th[e].tasks)

DigestListsTheStore ==
  \A e \in EventIds :
    (th[e].pc = "hGetAll" /\ th'[e].pc \in {"dm_open", "done"}) =>
      /\ Len(th'[e].tasks) = Len(pendingTasks)
      /\ (pendingTasks # << >> /\ MentionOccurrences(events[e].topic) # << >>) =>
            /\ th'[e].pc = "dm_open"
            /\ Len(th'[e].instructions) = Len(pendingTasks)
            /\ \A k \in 1..Len(pendingTasks) :
                 /\ th'[e].instructions[k].n = k
                 /\ th'[e].instructions[k].threadId = pendingTasks[k].key
                 /\ th'[e].instructions[k].text = pendingTasks[k].val[3]

\* C8: a broadcast that found a task calls sendDM once per mention token of
\* the topic, left to right, and every message posted carries the digest
\* with one line per field the hash held when it was listed.
C8_OneMessagePerMention == [](OneCallPerMention) /\ [][DigestListsTheStore]_vars

C8_Witness ==
  \E e \in EventIds :
    /\ events[e].topic = <<"<@U2>", "<@u1>", "<@U1>", "<@U2>">>
    /\ th[e].pc = "done"
    /\ th[e].calls = <<"U2", "U1", "U2">>
    /\ Len(th[e].sent) = 3
    /\ Len(th[e].instructions) = 1

\* ---------------------------------------------------------------- C9
\* C9: no failure escapes: no listener run and no timer callback ends
\* uncaught, and the process stays up.
C9_NoErrorEscapes ==
  /\ alive
  /\ \A e \in EventIds : mh[e].pc # "uncaught" /\ th[e].pc # "uncaught"
  /\ \A t \in TimerIds : timers[t].pc # "uncaught"
  /\ \A e \in EventIds : (mh[e].failedAt # "") = (mh[e].pc = "error_logged")
  /\ \A e \in EventIds : (th[e].failedAt \in {"team_info", "hGetAll"}) = (th[e].pc = "error_logged")
  /\ \A t \in TimerIds : (timers[t].failedAt # "") = (timers[t].pc = "error_logged")

C9_Witness ==
  \E e \in EventIds, t \in TimerIds :
    /\ mh[e].pc = "error_logged"
    /\ mh[e].failedAt = "hDel"
    /\ timers[t].by = e
    /\ timers[t].pc = "done"
    /\ timers[t].sent # << >>
    /\ alive

\* ---------------------------------------------------------------- C10
\* C10: in a handler's own order of effects, the "pending" reply comes
\* after its successful put and the "completed" reply after its successful
\* delete; a handler whose store command failed has sent no reply for it.
C10_StoreBeforeReply ==
  \A e \in EventIds :
    LET fx == mh[e].effects
        k == ThreadIdOf(events[e])
    IN /\ \A i \in 1..Len(fx) :
            (fx[i].op = "say" /\ fx[i].what = "pending") =>
               \E j \in 1..(i - 1) : fx[j] = Eff("hSet", "ok", k)
       /\ \A i \in 1..Len(fx) :
            (fx[i].op = "say" /\ fx[i].what = "completed") =>
               \E j \in 1..(i - 1) : fx[j] = Eff("hDel", "ok", k)
       /\ mh[e].failedAt = "hSet" => ~SaidTo(e, "pending")
       /\ mh[e].failedAt = "hDel" => ~SaidTo(e, "completed")

C10_Witness ==
  \E e \in EventIds :
    /\ events[e].text = <<"@pending", "@completed">>
    /\ mh[e].failedAt = "hDel"
    /\ mh[e].effects = <<Eff("hSet", "ok", ThreadIdOf(events[e])),
                         Eff("say", "pending", ThreadIdOf(events[e]))>>

\* ---------------------------------------------------------------- C11
\* the listing, as getPendingTasks returns it for a hash
listAll(h) == getPendingTasks(hGetAll(h))

RecordsOf(h, k) == { i \in 1..Len(listAll(h)) : listAll(h)[i].threadId = k }
OtherRecords(h, k) == SelectSeq(listAll(h), LAMBDA r : r.threadId # k)

RoundTripPut ==
  \A e \in EventIds :
    (mh[e].pc = "hSet" /\ mh'[e].pc = "say_pending") =>
      LET k == ThreadIdOf(events[e])
          T == TaskDataOf(e)
      IN /\ Cardinality(RecordsOf(pendingTasks', k)) = 1
         /\ \A i \in RecordsOf(pendingTasks', k) :
              listAll(pendingTasks')[i] =
                [threadId |-> k, status |-> T.status, channel |-> T.channel,
                 text |-> T.text, comment |-> T.comment]
         /\ OtherRecords(pendingTasks', k) = OtherRecords(pendingTasks, k)

RoundTripDelete ==
  \A e \in EventIds :
    (mh[e].pc = "hDel" /\ mh'[e].pc = "say_completed") =>
      LET k == ThreadIdOf(events[e])
      IN /\ RecordsOf(pendingTasks', k) = {}
         /\ OtherRecords(pendingTasks', k) = OtherRecords(pendingTasks, k)

\* C11: listed right after a put of T under id, the hash gives exactly one
\* record for id, with the fields of T; listed right after a delete of id it
\* gives none; the records of the other keys are the same before and after.
C11_StoreRoundTrip == [][RoundTripPut /\ RoundTripDelete]_vars

C11_Witness ==
  \E e1, e2 \in EventIds :
    /\ events[e1].thread_ts = NoTs
    /\ HasEffect(e1, Eff("hSet", "ok", e1))
    /\ mh[e1].parentText = LongText50
    /\ HasEffect(e2, Eff("hDel", "ok", OldTs))
    /\ listAll(pendingTasks) =
         <<[threadId |-> e1, status |-> "pending", channel |-> Channel,
            text |-> LongText50, comment |-> events[e1].text]>>

\* ---------------------------------------------------------------- C12
\* the request that armed timer t
RequestOf(t) == events[timers[t].by].text

\* C12: every armed reminder has the delay amount * 60000 for minutes,
\* amount * 3600000 for hours and amount * 86400000 for days, where amount
\* and unit are those of the request; 2 hours is 7200000 and 1 day 86400000.
C12_UnitConversion ==
  \A t \in TimerIds :
    LET n == Amount(RequestOf(t))
        u == Unit(RequestOf(t))
        factor == CASE u = "minute" -> 60000 [] u = "hour" -> 3600000 [] u = "day" -> 86400000
    IN /\ timers[t].delay % factor = 0
       /\ timers[t].delay \div factor = n
       /\ RequestOf(t) = <<"remind me in", "2", "hours">> => timers[t].delay = 7200000
       /\ RequestOf(t) = <<"Remind me in", "1", "day">> => timers[t].delay = 86400000

\* the conversion for the requests whose delay a timer can take
C12_InRange ==
  \A t \in TimerIds :
    RequestOf(t) # <<"remind me in", "25", "days">> =>
      /\ RequestOf(t) = <<"remind me in", "2", "hours">> => timers[t].delay = 7200000
      /\ RequestOf(t) = <<"Remind me in", "1", "day">> => timers[t].delay = 86400000

\* ---------------------------------------------------------------- C13
\* what each command of a message does, read off the message alone
PendingFx(m) ==
  IF Includes(m.text, "@pending")
  THEN <<Eff("hSet", "ok", ThreadIdOf(m)), Eff("say", "pending", ThreadIdOf(m))>>
  ELSE << >>

RemindFx(m) ==
  IF StartsWithRemind(m.text) /\ HasMatch(m.text)
  THEN <<Eff("say", "remind", m.thread_ts)>>
  ELSE << >>

CompletedFx(m) ==
  IF Includes(m.text, "@completed")
  THEN <<Eff("hDel", "ok", ThreadIdOf(m)), Eff("say", "completed", ThreadIdOf(m))>>
  ELSE << >>

ListFx(m) ==
  IF Includes(m.text, "@list_pending")
  THEN <<Eff("say", "list", ThreadIdOf(m))>>
  ELSE << >>

\* MarkPending, ScheduleReminder, MarkCompleted, ListPending, in that order
ExpectedFx(m) == PendingFx(m) \o RemindFx(m) \o CompletedFx(m) \o ListFx(m)

IsPrefix(a, b) == Len(a) <= Len(b) /\ a = SubSeq(b, 1, Len(a))

ArmedBy(e) == { t \in TimerIds : timers[t].by = e }

EveryCommandInOrder ==
  \A e \in EventIds :
    /\ IsPrefix(mh[e].effects, ExpectedFx(events[e]))
    /\ mh[e].pc = "done" =>
         /\ mh[e].effects = ExpectedFx(events[e])
         /\ Cardinality(ArmedBy(e)) = Len(RemindFx(events[e]))
    /\ ArmedBy(e) # {} => SaidTo(e, "remind")

DeleteLeavesAbsent ==
  \A e \in EventIds :
    (mh[e].pc = "hDel" /\ mh'[e].pc = "say_completed") =>
      /\ ~HasField(pendingTasks', ThreadIdOf(events[e]))
      /\ Includes(events[e].text, "@pending") =>
           HasEffect(e, Eff("hSet", "ok", ThreadIdOf(events[e])))

OneNotification ==
  \A t \in TimerIds :
    /\ Len(timers[t].sent) <= 1
    /\ timers[t].sent # << >> =>
         /\ timers[t].sent[1].userId = events[timers[t].by].user
         /\ timers[t].sent[1].threadId = timers[t].threadId
         /\ timers[t].task # << >>
         /\ timers[t].pc = "done"
    /\ timers[t].pc = "done" => (timers[t].sent # << >>) = (timers[t].task # << >>)
    /\ timers[t].pc = "post" => timers[t].task # << >>

\* the callback starts once, reads the hash for its own thread, and a
\* callback that has returned does nothing more
RunsOnce ==
  \A t \in TimerIds :
    /\ timers[t].pc # "armed" => timers'[t].pc # "armed"
    /\ Finished(timers[t].pc) => timers'[t] = timers[t]
    /\ (timers[t].pc = "hGet" /\ timers'[t].pc \in {"post", "done"}) =>
         /\ (timers'[t].pc = "post") = HasField(pendingTasks, timers[t].threadId)
         /\ timers'[t].task = hGet(pendingTasks, timers[t].threadId)
         /\ \A u \in TimerIds \ {t} : timers'[u] = timers[u]
    /\ (timers[t].pc = "post" /\ timers'[t].pc = "done") => Len(timers'[t].sent) = 1

EveryTimerRuns ==
  \A t \in 1..(MaxTimerEvents + 1) :
    (t \in TimerIds) ~> (t \in TimerIds /\ Finished(timers[t].pc))

\* C14: every armed timer runs its callback, once; the callback reads the
\* hash for its own thread and, when the task is there and no call fails,
\* posts one notification, to the user whose message armed it; otherwise it
\* posts none; no timer changes what another one does.
C14_OneShotIndependent == [](OneNotification) /\ [][RunsOnce]_vars /\ EveryTimerRuns

C14_Witness ==
  \E t1, t2 \in TimerIds :
    /\ t1 # t2
    /\ timers[t1].threadId = timers[t2].threadId
    /\ timers[t1].pc = "done" /\ timers[t2].pc = "done"
    /\ timers[t1].sent # << >> /\ timers[t2].sent # << >>
    /\ timers[t1].sent[1].userId = "U1"
    /\ timers[t2].sent[1].userId = "U2"

\* ---------------------------------------------------------------- C15
\* the threads whose put, or whose delete, completes in this step
PutCompletes ==
  { ThreadIdOf(events[e]) :
      e \in { x \in EventIds : mh[x].pc = "hSet" /\ mh'[x].pc = "say_pending" } }

DeleteCompletes ==
  { ThreadIdOf(events[e]) :
      e \in { x \in EventIds : mh[x].pc = "hDel" /\ mh'[x].pc = "say_completed" } }

Keys(h) == { h[i].key : i \in 1..Len(h) }

LastCompletionDecides ==
  IF pendingTasks' = pendingTasks
  THEN /\ PutCompletes \subseteq Keys(pendingTasks)
       /\ DeleteCompletes \cap Keys(pendingTasks) = {}
  ELSE /\ Keys(pendingTasks') \ Keys(pendingTasks) \subseteq PutCompletes
       /\ Keys(pendingTasks) \ Keys(pendingTasks') \subseteq DeleteCompletes
       /\ PutCompletes \subseteq Keys(pendingTasks')
       /\ DeleteCompletes \cap Keys(pendingTasks') = {}

\* C15: a thread has a task exactly when the last store command completed
\* for it was a put: a put that completes leaves the task there, a delete
\* that completes leaves it absent, and no other step changes whether it is
\* there, whatever the order in which the messages came and however the
\* handlers interleave.
C15_LastStoreOpWins == [][LastCompletionDecides]_vars

\* @pending received first, @completed second, both done, the put last
C15_Witness ==
  \E e1, e2 \in EventIds :
    /\ e1 < e2
    /\ events[e1].text = <<"@pending">> /\ events[e2].text = <<"@completed">>
    /\ events[e1].thread_ts = OldTs /\ events[e2].thread_ts = OldTs
    /\ mh[e1].pc = "done" /\ mh[e2].pc = "done"
    /\ HasEffect(e1, Eff("hSet", "ok", OldTs))
    /\ HasEffect(e2, Eff("hDel", "ok", OldTs))
    /\ HasField(pendingTasks, OldTs)

\* the same two messages in the same order, the delete last
C15_PendingFirstAbsent ==
  \E e1, e2 \in EventIds :
    /\ e1 < e2
    /\ events[e1].text = <<"@pending">> /\ events[e2].text = <<"@completed">>
    /\ events[e1].thread_ts = OldTs /\ events[e2].thread_ts = OldTs
    /\ mh[e1].pc = "done" /\ mh[e2].pc = "done"
    /\ HasEffect(e1, Eff("hSet", "ok", OldTs))
    /\ HasEffect(e2, Eff("hDel", "ok", OldTs))
    /\ ~HasField(pendingTasks, OldTs)

\* @completed received first: the put last, and the delete last
C15_CompletedFirstPresent ==
  \E e1, e2 \in EventIds :
    /\ e1 < e2
    /\ events[e1].text = <<"@completed">> /\ events[e2].text = <<"@pending">>
    /\ events[e1].thread_ts = OldTs /\ events[e2].thread_ts = OldTs
    /\ mh[e1].pc = "done" /\ mh[e2].pc = "done"
    /\ HasEffect(e2, Eff("hSet", "ok", OldTs))
    /\ HasEffect(e1, Eff("hDel", "ok", OldTs))
    /\ HasField(pendingTasks, OldTs)

C15_CompletedFirstAbsent ==
  \E e1, e2 \in EventIds :
    /\ e1 < e2
    /\ events[e1].text = <<"@completed">> /\ events[e2].text = <<"@pending">>
    /\ events[e1].thread_ts = OldTs /\ events[e2].thread_ts = OldTs
    /\ mh[e1].pc = "done" /\ mh[e2].pc = "done"
    /\ HasEffect(e2, Eff("hSet", "ok", OldTs))
    /\ HasEffect(e1, Eff("hDel", "ok", OldTs))
    /\ ~HasField(pendingTasks, OldTs)

\* ---------------------------------------------------------------- C16
\* a handler that is composing, or has composed, a message with a link
ComposesList(e) == mh[e].pc = "say_list" \/ SaidTo(e, "list")
ComposesDigest(e) == th[e].instructions # << >>
ComposesReminder(t) == timers[t].pc = "post" \/ timers[t].sent # << >>

DomainSetWhenComposing ==
  /\ \A e \in EventIds :
       ComposesList(e) =>
         /\ workspaceDomain = Domain
         /\ mh[e].tasks # << >> => mh[e].linkDomain = Domain
  /\ \A e \in EventIds :
       ComposesDigest(e) =>
         /\ workspaceDomain = Domain
         /\ \A k \in 1..Len(th[e].instructions) : th[e].instructions[k].domain = Domain
         /\ \A k \in 1..Len(th[e].sent) :
              \A j \in 1..Len(th[e].sent[k].text) : th[e].sent[k].text[j].domain = Domain
  /\ \A t \in TimerIds :
       ComposesReminder(t) =>
         /\ workspaceDomain = Domain
         /\ \A k \in 1..Len(timers[t].sent) : timers[t].sent[k].domain = Domain

FailedFetchSendsNothing ==
  /\ \A e \in EventIds :
       mh[e].failedAt = "team_info" =>
         /\ mh[e].pc = "error_logged"
         /\ mh[e].effects = << >>
         /\ ArmedBy(e) = {}
  /\ \A e \in EventIds :
       th[e].failedAt = "team_info" =>
         /\ th[e].pc = "error_logged"
         /\ th[e].instructions = << >>
         /\ th[e].calls = << >>
         /\ th[e].sent = << >>

DomainNeverReset == workspaceDomain # NoDomain => workspaceDomain' = workspaceDomain

\* C16: whenever a list reply, a topic digest or a reminder notification is
\* being composed or has been sent, the cached domain is set and is the one
\* in its links; a handler whose fetch of the domain failed has sent
\* nothing; the cached domain, once set, keeps its value.
C16_DomainBeforeLink ==
  [](DomainSetWhenComposing /\ FailedFetchSendsNothing) /\ [][DomainNeverReset]_vars

C16_Witness ==
  \E e1, e2 \in EventIds, t \in TimerIds :
    /\ SaidTo(e1, "list")
    /\ mh[e1].linkDomain = Domain
    /\ timers[t].sent # << >>
    /\ th[e2].sent # << >>
    /\ mh[e2].failedAt = "team_info"

\* ---------------------------------------------------------------- C17
\* how many effects a handler of m has when the call named by pc fails
EffectsBefore(m, pc) ==
  CASE pc \in {"team_info", "replies", "hSet"} -> 0
    [] pc = "say_pending" -> 1
    [] pc = "say_remind" -> Len(PendingFx(m))
    [] pc = "hDel" -> Len(PendingFx(m)) + Len(RemindFx(m))
    [] pc = "say_completed" -> Len(PendingFx(m)) + Len(RemindFx(m)) + 1
    [] pc \in {"hGetAll", "say_list"} ->
         Len(PendingFx(m)) + Len(RemindFx(m)) + Len(CompletedFx(m))
    [] OTHER -> 0

QueuedBy(e) ==
  { i \in 1..Len(redisQueue) : redisQueue[i].kind = "mh" /\ redisQueue[i].id = e }

FailureEndsHandler ==
  \A e \in EventIds :
    mh[e].failedAt # "" =>
      /\ mh[e].pc = "error_logged"
      /\ QueuedBy(e) = {}
      /\ mh[e].effects =
           SubSeq(ExpectedFx(events[e]), 1, EffectsBefore(events[e], mh[e].failedAt))
      /\ mh[e].failedAt \in {"team_info", "replies", "hSet", "say_pending"} =>
           ~HasEffect(e, Eff("hDel", "ok", ThreadIdOf(events[e])))

\* the failing step changes no record, and a handler that has ended does
\* nothing more
NothingAfterFailure ==
  \A e \in EventIds :
    /\ (mh[e].failedAt = "" /\ mh'[e].failedAt # "") => pendingTasks' = pendingTasks
    /\ mh[e].failedAt # "" => mh'[e] = mh[e]

\* C17: a message handler whose awaited call failed has ended: it has done
\* the steps before the failing one and nothing else, has no store command
\* under way and does nothing afterwards; the failing step leaves the hash
\* as the steps before it wrote it.
C17_SingleFailureBoundary == [](FailureEndsHandler) /\ [][NothingAfterFailure]_vars

C17_Witness ==
  \E e \in EventIds :
    /\ events[e].text = <<"@completed", "@pending">>
    /\ mh[e].failedAt = "say_pending"
    /\ mh[e].effects = <<Eff("hSet", "ok", ThreadIdOf(events[e]))>>
    /\ hGet(pendingTasks, ThreadIdOf(events[e])) = JSONstringify(TaskDataOf(e))
    /\ \A e2 \in EventIds : Finished(mh[e2].pc)

\* ---------------------------------------------------------------- C18
ListingsBy(e) ==
  { i \in 1..Len(redisQueue) : redisQueue[i].kind = "th" /\ redisQueue[i].id = e }

SameDigest ==
  \A e \in EventIds :
    /\ \A k \in 1..Len(th[e].sent) : th[e].sent[k].text = th[e].instructions
    /\ \A j, k \in 1..Len(th[e].sent) : th[e].sent[j].text = th[e].sent[k].text
    /\ th[e].instructions # << >> => th[e].instructions = Instructions(th[e].tasks, th[e].domain)
    /\ Cardinality(ListingsBy(e)) <= 1
    /\ th[e].pc \in {"dm_open", "dm_post", "done"} => ListingsBy(e) = {}

\* what the broadcast listed stays what it listed, whatever happens to the hash
ListedOnce ==
  \A e \in EventIds :
    th[e].pc \in {"dm_open", "dm_post"} =>
      /\ th'[e].tasks = th[e].tasks
      /\ th'[e].instructions = th[e].instructions
      /\ redisQueue' # redisQueue =>
           \A i \in 1..Len(redisQueue') :
             ~(redisQueue'[i].kind = "th" /\ redisQueue'[i].id = e)

\* C18: a broadcast lists the hash once, before its first send: every
\* message it posts carries the digest made from that listing, and a put or
\* a delete completed while the sends are under way changes neither the
\* listing nor the digest.
C18_BroadcastSnapshot == [](SameDigest) /\ [][ListedOnce]_vars

\* the second message is being posted with the old task in its digest,
\* after the task was completed
C18_Witness ==
  \E e \in EventIds :
    /\ th[e].pc = "dm_post"
    /\ th[e].i = 2
    /\ Len(th[e].sent) = 1
    /\ Len(th[e].instructions) = 1
    /\ th[e].instructions[1].threadId = OldTs
    /\ th[e].sent[1].text = th[e].instructions
    /\ ~HasField(pendingTasks, OldTs)

\* ---------------------------------------------------------------- C19
\* the anchor of the message of event e: its thread, or the message itself
AnchorOf(e) == IF events[e].thread_ts # NoTs THEN events[e].thread_ts ELSE events[e].ts

OthersKept(k) ==
  SelectSeq(pendingTasks', LAMBDA f : f.key # k) = SelectSeq(pendingTasks, LAMBDA f : f.key # k)

OwnPut(e) ==
  /\ mh[e].pc = "hSet" /\ mh'[e].pc = "say_pending"
  /\ Includes(events[e].text, "@pending")
  /\ HasField(pendingTasks', AnchorOf(e))
  /\ OthersKept(AnchorOf(e))

OwnDelete(e) ==
  /\ mh[e].pc = "hDel" /\ mh'[e].pc = "say_completed"
  /\ Includes(events[e].text, "@completed")
  /\ ~HasField(pendingTasks', AnchorOf(e))
  /\ OthersKept(AnchorOf(e))

\* a step of the topic listener, of a timer, of @list_pending, of a reminder
\* request, or the arrival of an event
NonStoreStep ==
  \/ th' # th
  \/ events' # events
  \/ Len(timers') # Len(timers)
  \/ \E t \in TimerIds : timers'[t].pc # timers[t].pc
  \/ \E e \in EventIds :
       mh[e].pc \in {"team_info", "replies", "say_remind", "hGetAll", "say_list"}
       /\ mh'[e] # mh[e]

StoreFrame ==
  /\ pendingTasks' # pendingTasks => \E e \in EventIds : OwnPut(e) \/ OwnDelete(e)
  /\ NonStoreStep => pendingTasks' = pendingTasks

\* C19: the hash changes only in a step that completes the put of an
\* @pending message or the delete of an @completed message, and then only
\* in the field of that message's own anchor; listing, asking for a
\* reminder, a timer callback and the topic listener leave it as it is.
C19_StoreFrame == [][StoreFrame]_vars

C19_Witness ==
  \E e \in EventIds, t \in TimerIds :
    /\ events[e].text = AllCommands
    /\ events[e].thread_ts = NoTs
    /\ mh[e].pc = "done"
    /\ Len(mh[e].effects) = 6
    /\ timers[t].by = e
    /\ timers[t].pc = "done"
    /\ pendingTasks = <<[key |-> OldTs, val |-> OldTask]>>

\* ---------------------------------------------------------------- C20
NotifiedFor(e) == { t \in ArmedBy(e) : timers[t].sent # << >> \/ timers[t].pc # "armed" }

ConfirmedBeforeArmed ==
  \A e \in EventIds :
    /\ ArmedBy(e) # {} => HasEffect(e, Eff("say", "remind", events[e].thread_ts))
    /\ Cardinality(ArmedBy(e)) <= 1
    /\ mh[e].pc = "say_remind" => ArmedBy(e) = {}
    /\ mh[e].failedAt = "say_remind" =>
         /\ ArmedBy(e) = {}
         /\ NotifiedFor(e) = {}
         /\ mh[e].pc = "error_logged"

\* a timer is armed in the step in which the reminder reply succeeds, and in
\* no other step
ArmedOnReply ==
  /\ Len(timers') >= Len(timers)
  /\ Len(timers') > Len(timers) =>
       /\ Len(timers') = Len(timers) + 1
       /\ LET e == timers'[Len(timers')].by
          IN /\ mh[e].pc = "say_remind"
             /\ mh'[e].failedAt = ""
             /\ mh'[e].effects = Append(mh[e].effects,
                                        Eff("say", "remind", events[e].thread_ts))
  /\ \A e \in EventIds :
       (mh[e].pc = "say_remind" /\ mh'[e].failedAt = "say_remind") => timers' = timers

\* C20: a timer exists only for a request whose "I'll remind you" reply has
\* succeeded, and it is armed in the step in which that reply returns; a
\* request whose reply failed has no timer and no notification, then or later.
C20_ReplyBeforeArming == [](ConfirmedBeforeArmed) /\ [][ArmedOnReply]_vars

C20_Witness ==
  \E e1, e2 \in EventIds, t \in TimerIds :
    /\ mh[e1].failedAt = "say_remind"
    /\ ArmedBy(e1) = {}
    /\ mh[e2].pc = "done"
    /\ timers[t].by = e2
    /\ timers[t].sent # << >>
    /\ \A u \in TimerIds : Finished(timers[u].pc)

====
